---- MODULE Spec2Model ----
(***************************************************************************)
(* Ticket reservation backend: the Event inventory, the Reservation        *)
(* lifecycle, the reservation endpoints and the expiry sweep, as a state   *)
(* machine over the database rows (events, reservations) and the clock.    *)
(***************************************************************************)
EXTENDS Integers, Sequences, FiniteSets, TLC

\* ---------------------------------------------------------------- bounds
\* rows the reservations table may hold
MaxReservations == 2
\* clock ticks of TIMEOUT_MINUTES each
MaxTicks == 2
\* total_capacity of the event
MaxCapacity == 2
\* concurrent requests in flight
NumWorkers == 3

\* ------------------------------------------------------- program constants
\* get_reservation_timeout_minutes(): 15 minutes
TIMEOUT_MINUTES == 15
\* ReservationCreateSchema.ticket_quantity: validate.Range(min=1, max=10)
MIN_QUANTITY == 1
MAX_QUANTITY == 10

PENDING == "pending"
CONFIRMED == "confirmed"
CANCELLED == "cancelled"
ReservationStatus == {PENDING, CONFIRMED, CANCELLED}

PAY_PENDING == "pending"
PAY_COMPLETED == "completed"
PAY_FAILED == "failed"
PAY_REFUNDED == "refunded"
PaymentStatus == {PAY_PENDING, PAY_COMPLETED, PAY_FAILED, PAY_REFUNDED}

\* payment_reference is nullable
NULL == "null"

\* ------------------------------------------------------------ input sets
UserIds == {1, 2}
EventIds == {1}
\* an event id that passes validation but names no row
MissingEventId == Cardinality(EventIds) + 1
\* requested quantities: below the schema range, inside it, above it
Quantities == {0, 1, 2, MAX_QUANTITY + 1}
PaymentRefs == {"refA", "refB"}
\* an event is created with a date in the future; the model's event starts
\* at the clock's last tick
EventDate == MaxTicks * TIMEOUT_MINUTES
TicketPrice == 5
Prices == {TicketPrice, TicketPrice + 2}
Workers == 1..NumWorkers

VARIABLES
    events,        \* events table: id -> row
    reservations,  \* reservations table: sequence of rows, id = index
    now,           \* datetime.utcnow(), in minutes
    sessions       \* per worker: the request in flight and its session's copy
                   \* of the event row

vars == <<events, reservations, now, sessions>>

\* Min with the comparison the wrong way round
Min_larger(a, b) == IF a <= b THEN b ELSE a

Min(a, b) == IF a <= b THEN a ELSE b

\* ----------------------------------------------------- Event (events/models.py)
is_upcoming(ev, t) == ev.event_date > t

\* can_reserve_tickets with the stock test weakened to "some ticket is left"
can_reserve_tickets_some_left(ev, quantity, t) ==
    /\ ev.is_active
    /\ is_upcoming(ev, t)
    /\ ev.available_tickets > 0
    /\ quantity > 0

can_reserve_tickets(ev, quantity, t) ==
    /\ ev.is_active
    /\ is_upcoming(ev, t)
    /\ ev.available_tickets >= quantity
    /\ quantity > 0

\* reserve_tickets without the test of can_reserve_tickets
reserve_tickets_unchecked(ev, quantity, t) ==
    [ev EXCEPT !.available_tickets = @ - quantity]

\* reserve_tickets that takes one ticket whatever the quantity
reserve_tickets_single(ev, quantity, t) ==
    IF ~can_reserve_tickets(ev, quantity, t)
    THEN ev
    ELSE [ev EXCEPT !.available_tickets = @ - 1]

reserve_tickets(ev, quantity, t) ==
    IF ~can_reserve_tickets(ev, quantity, t)
    THEN ev
    ELSE [ev EXCEPT !.available_tickets = @ - quantity]

\* the value reserve_tickets returns
reserve_tickets_returns(ev, quantity, t) ==
    IF ~can_reserve_tickets(ev, quantity, t) THEN FALSE ELSE TRUE

\* release_tickets without the cap at total_capacity
release_tickets_uncapped(ev, quantity) ==
    [ev EXCEPT !.available_tickets = @ + quantity]

release_tickets(ev, quantity) ==
    [ev EXCEPT !.available_tickets = Min(@ + quantity, ev.total_capacity)]

\* ------------------------------------------ Reservation (reservations/models.py)
NewReservation(user_id, event_id, quantity, price, t) ==
    [user_id |-> user_id,
     event_id |-> event_id,
     ticket_quantity |-> quantity,
     unit_price |-> price,
     total_amount |-> price * quantity,
     reservation_status |-> PENDING,
     payment_status |-> PAY_PENDING,
     payment_reference |-> NULL,
     created_at |-> t]

is_active(r) == r.reservation_status \in {PENDING, CONFIRMED}

\* can_be_cancelled without the test of the event's date
can_be_cancelled_any_date(r, evs, t) ==
    r.reservation_status # CANCELLED

can_be_cancelled(r, evs, t) ==
    /\ r.reservation_status # CANCELLED
    /\ is_upcoming(evs[r.event_id], t)

confirm_payment(r, payment_reference) ==
    [r EXCEPT !.reservation_status = CONFIRMED,
              !.payment_status = PAY_COMPLETED,
              !.payment_reference = payment_reference]

\* Reservation.cancel_reservation: the result (True/False), the reservation
\* and the event's row after the call
cancel_reservation_model(r, evs, t) ==
    IF ~can_be_cancelled(r, evs, t)
    THEN [ok |-> FALSE, reservation |-> r, event |-> evs[r.event_id]]
    ELSE [ok |-> TRUE,
          reservation |->
              [r EXCEPT !.reservation_status = CANCELLED,
                        !.payment_status =
                            IF r.payment_status = PAY_COMPLETED
                            THEN PAY_REFUNDED ELSE @],
          event |-> release_tickets(evs[r.event_id], r.ticket_quantity)]

\* ----------------------------------------------------------------- queries
ReservationIds == 1..Len(reservations)

\* find_reservation without the filter on the owner
find_reservation_any_owner(rsvs, reservation_id, user_id) ==
    IF reservation_id \in 1..Len(rsvs) THEN reservation_id ELSE 0

\* Reservation.query.filter_by(id=reservation_id, user_id=user_id).first()
find_reservation(rsvs, reservation_id, user_id) ==
    IF reservation_id \in 1..Len(rsvs) /\ rsvs[reservation_id].user_id = user_id
    THEN reservation_id
    ELSE 0

\* the UNIQUE index on reservations.payment_reference: would writing ref on
\* row rid collide with another row
reference_taken(rsvs, rid, ref) ==
    /\ ref # NULL
    /\ \E i \in 1..Len(rsvs) : i # rid /\ rsvs[i].payment_reference = ref

\* --------------------------------------------------- reservations/views.py
Result(status, evs, rsvs) ==
    [status |-> status, events |-> evs, reservations |-> rsvs]

\* the error body of every 404 of the reservation endpoints
NOT_FOUND == "Reservation not found"

\* GET /api/reservations/<id>: the status and the body (the row, or the error)
get_reservation(rsvs, user_id, reservation_id) ==
    LET rid == find_reservation(rsvs, reservation_id, user_id) IN
    IF rid = 0
    THEN [status |-> 404, body |-> NOT_FOUND]
    ELSE [status |-> 200, body |-> rsvs[rid]]

\* valid_create with the upper limit of the range excluded
valid_create_below_max(event_id, quantity) ==
    /\ event_id >= 1
    /\ quantity >= MIN_QUANTITY
    /\ quantity < MAX_QUANTITY

valid_create(event_id, quantity) ==
    /\ event_id >= 1
    /\ quantity >= MIN_QUANTITY
    /\ quantity <= MAX_QUANTITY

\* lines 87-102: validation, Event.find_by_id and the availability check;
\* 0 when the request goes on to reserve
create_precheck(evs, t, event_id, quantity) ==
    IF ~valid_create(event_id, quantity)
    THEN 400
    ELSE IF event_id \notin DOMAIN evs \/ ~evs[event_id].is_active
    THEN 404
    ELSE IF ~can_reserve_tickets(evs[event_id], quantity, t)
    THEN 400
    ELSE 0

\* the UPDATE a commit issues for the session's event row ev: the ORM writes
\* the columns that changed, here available_tickets at most
flush_event(evs, event_id, old, new) ==
    IF new.available_tickets = old.available_tickets
    THEN evs
    ELSE [evs EXCEPT ![event_id].available_tickets = new.available_tickets]

\* the UPDATE a commit issues for the session's reservation row: the columns
\* whose value the request changed
flush_reservation(rsvs, rid, old, new) ==
    [rsvs EXCEPT ![rid] =
        [f \in DOMAIN @ |-> IF new[f] # old[f] THEN new[f] ELSE @[f]]]

\* lines 105-123: reserve on the session's copy ev of the event row (the
\* result of reserve_tickets is not looked at), insert the reservation, commit
create_commit(evs, rsvs, ev, t, user_id, event_id, quantity) ==
    Result(201,
           flush_event(evs, event_id, ev, reserve_tickets(ev, quantity, t)),
           Append(rsvs, NewReservation(user_id, event_id, quantity,
                                       ev.ticket_price, t)))

create_reservation(evs, rsvs, t, user_id, event_id, quantity) ==
    LET status == create_precheck(evs, t, event_id, quantity) IN
    IF status # 0
    THEN Result(status, evs, rsvs)
    ELSE create_commit(evs, rsvs, evs[event_id], t,
                       user_id, event_id, quantity)

\* where create_reservation may fail once reserve_tickets has run: before
\* save(), at the INSERT of the reservation, at the COMMIT
FailurePoints == {"reserve", "insert", "commit"}

\* the statements the transaction has sent when the request fails at point:
\* the flush sends the event's UPDATE, then the reservation's INSERT
flushed_at(evs, rsvs, ev, t, user_id, event_id, quantity, point) ==
    LET done == create_commit(evs, rsvs, ev, t, user_id, event_id, quantity) IN
    IF point = "reserve"
    THEN Result(0, evs, rsvs)
    ELSE IF point = "insert"
    THEN Result(0, done.events, rsvs)
    ELSE done

\* a rollback that keeps what had been flushed, as under autocommit
rollback_keeps_flushed(evs, rsvs, flushed) ==
    Result(500, flushed.events, flushed.reservations)

\* db.session.rollback(), or the session's removal at the end of the request:
\* the tables are the committed ones, whatever had been flushed
rollback(evs, rsvs, flushed) ==
    Result(500, evs, rsvs)

\* create_reservation when the work after reserve_tickets fails at point
create_reservation_failing(evs, rsvs, t, user_id, event_id, quantity, point) ==
    LET status == create_precheck(evs, t, event_id, quantity) IN
    IF status # 0
    THEN Result(status, evs, rsvs)
    ELSE rollback(evs, rsvs,
                  flushed_at(evs, rsvs, evs[event_id], t,
                             user_id, event_id, quantity, point))

process_payment(evs, rsvs, t, user_id, reservation_id, payment_reference) ==
    LET rid == find_reservation(rsvs, reservation_id, user_id) IN
    IF rid = 0
    THEN Result(404, evs, rsvs)
    ELSE IF rsvs[rid].reservation_status # PENDING
    THEN Result(400, evs, rsvs)
    ELSE IF reference_taken(rsvs, rid, payment_reference)
    THEN Result(500, evs, rsvs)
    ELSE Result(200, evs,
                [rsvs EXCEPT ![rid] = confirm_payment(@, payment_reference)])

cancel_reservation(evs, rsvs, t, user_id, reservation_id) ==
    LET rid == find_reservation(rsvs, reservation_id, user_id) IN
    IF rid = 0
    THEN Result(404, evs, rsvs)
    ELSE IF ~can_be_cancelled(rsvs[rid], evs, t)
    THEN Result(400, evs, rsvs)
    ELSE LET c == cancel_reservation_model(rsvs[rid], evs, t) IN
         IF c.ok
         THEN Result(200,
                     [evs EXCEPT ![rsvs[rid].event_id] = c.event],
                     [rsvs EXCEPT ![rid] = c.reservation])
         ELSE Result(400, evs, rsvs)

\* ReservationUpdateSchema: both fields optional; a request body is the
\* record of the fields it carries
UpdateData(refs) ==
    {<<>>}
    \cup {[reservation_status |-> s] : s \in ReservationStatus}
    \cup {[payment_reference |-> p] : p \in refs}
    \cup {[reservation_status |-> s, payment_reference |-> p] :
             s \in ReservationStatus, p \in refs}

\* for field, value in data.items(): setattr(reservation, field, value)
apply_update(r, data) ==
    [f \in DOMAIN r |-> IF f \in DOMAIN data THEN data[f] ELSE r[f]]

\* update_reservation with the row looked up by id alone
update_reservation_any_owner(evs, rsvs, t, user_id, reservation_id, data) ==
    IF reservation_id \notin 1..Len(rsvs)
    THEN Result(404, evs, rsvs)
    ELSE Result(200, evs, [rsvs EXCEPT ![reservation_id] = apply_update(@, data)])

update_reservation(evs, rsvs, t, user_id, reservation_id, data) ==
    LET rid == find_reservation(rsvs, reservation_id, user_id) IN
    IF rid = 0
    THEN Result(404, evs, rsvs)
    ELSE IF /\ "payment_reference" \in DOMAIN data
            /\ reference_taken(rsvs, rid, data.payment_reference)
    THEN Result(500, evs, rsvs)
    ELSE Result(200, evs, [rsvs EXCEPT ![rid] = apply_update(@, data)])

\* --------------------------------------------- reservations/permissions.py
is_reservation_expired(r, t) ==
    /\ r.reservation_status = PENDING
    /\ t > r.created_at + TIMEOUT_MINUTES

\* expired_reservations without the test of created_at
expired_reservations_any_age(rsvs, t) ==
    {i \in 1..Len(rsvs) : rsvs[i].reservation_status = PENDING}

\* the sweep's query: PENDING and created_at < cutoff_time
expired_reservations(rsvs, t) ==
    {i \in 1..Len(rsvs) :
        /\ rsvs[i].reservation_status = PENDING
        /\ rsvs[i].created_at < t - TIMEOUT_MINUTES}

\* the loop body for the selected rows from id i on
RECURSIVE sweep_from(_, _, _, _)
sweep_from(evs, rsvs, selected, i) ==
    IF i > Len(rsvs)
    THEN Result(0, evs, rsvs)
    ELSE IF i \notin selected
    THEN sweep_from(evs, rsvs, selected, i + 1)
    ELSE sweep_from(
             [evs EXCEPT ![rsvs[i].event_id] =
                 release_tickets(@, rsvs[i].ticket_quantity)],
             [rsvs EXCEPT ![i].reservation_status = CANCELLED],
             selected, i + 1)

\* the loop when the body raises for the rows in failing: the except branch
\* calls db.session.rollback(), which discards every change the session has
\* not committed (evs0, rsvs0 are the committed tables), and the loop goes on
RECURSIVE sweep_failing_from(_, _, _, _, _, _, _)
sweep_failing_from(evs0, rsvs0, evs, rsvs, selected, failing, i) ==
    IF i > Len(rsvs)
    THEN Result(0, evs, rsvs)
    ELSE IF i \notin selected
    THEN sweep_failing_from(evs0, rsvs0, evs, rsvs, selected, failing, i + 1)
    ELSE IF i \in failing
    THEN sweep_failing_from(evs0, rsvs0, evs0, rsvs0, selected, failing, i + 1)
    ELSE sweep_failing_from(
             evs0, rsvs0,
             [evs EXCEPT ![rsvs[i].event_id] =
                 release_tickets(@, rsvs[i].ticket_quantity)],
             [rsvs EXCEPT ![i].reservation_status = CANCELLED],
             selected, failing, i + 1)

\* cleanup_with_failures that leaves alone the rows can_be_cancelled refuses
cleanup_with_failures_guarded(evs, rsvs, t, failing) ==
    sweep_failing_from(evs, rsvs, evs, rsvs,
                       {i \in expired_reservations(rsvs, t) :
                           can_be_cancelled(rsvs[i], evs, t)},
                       failing, 1)

\* one run of the sweep in which the rows in failing raise
cleanup_with_failures(evs, rsvs, t, failing) ==
    sweep_failing_from(evs, rsvs, evs, rsvs,
                       expired_reservations(rsvs, t), failing, 1)

\* cleanup_expired_reservations that commits the released tickets and loses
\* the status it set
cleanup_expired_reservations_release_only(evs, rsvs, t) ==
    Result(0, sweep_from(evs, rsvs, expired_reservations(rsvs, t), 1).events,
           rsvs)

cleanup_expired_reservations(evs, rsvs, t) ==
    sweep_from(evs, rsvs, expired_reservations(rsvs, t), 1)

\* ------------------------------------------------------- events/views.py
\* EventUpdateSchema: the optional fields that reach the inventory
EventUpdateData(prices) ==
    {<<>>}
    \cup {[is_active |-> b] : b \in BOOLEAN}
    \cup {[ticket_price |-> p] : p \in prices}
    \cup {[is_active |-> b, ticket_price |-> p] : b \in BOOLEAN, p \in prices}

\* for field, value in data.items(): setattr(event, field, value)
apply_event_update(ev, data) ==
    [f \in DOMAIN ev |-> IF f \in DOMAIN data THEN data[f] ELSE ev[f]]

update_event(evs, rsvs, event_id, data) ==
    IF event_id \notin DOMAIN evs
    THEN Result(404, evs, rsvs)
    ELSE Result(200, [evs EXCEPT ![event_id] = apply_event_update(@, data)], rsvs)

\* delete_event that also hands the event's whole capacity back
delete_event_releasing(evs, rsvs, event_id) ==
    IF event_id \notin DOMAIN evs
    THEN Result(404, evs, rsvs)
    ELSE Result(200,
                [evs EXCEPT ![event_id].is_active = FALSE,
                            ![event_id].available_tickets =
                                evs[event_id].total_capacity],
                rsvs)

\* lines 178-186: Event.find_by_id, event.is_active = False, event.save()
delete_event(evs, rsvs, event_id) ==
    IF event_id \notin DOMAIN evs
    THEN Result(404, evs, rsvs)
    ELSE Result(200, [evs EXCEPT ![event_id].is_active = FALSE], rsvs)

\* ------------------------------------------------------------------ state
NewEvent(capacity) ==
    [total_capacity |-> capacity,
     available_tickets |-> capacity,
     event_date |-> EventDate,
     is_active |-> TRUE,
     ticket_price |-> TicketPrice]

Idle ==
    [pc |-> "idle", user_id |-> 0, event_id |-> 0, quantity |-> 0,
     event |-> NewEvent(0), status |-> 0]

Init ==
    /\ events = [e \in EventIds |-> NewEvent(MaxCapacity)]
    /\ reservations = <<>>
    /\ now = 0
    /\ sessions = [w \in Workers |-> Idle]

\* a request served start to end: the rows its handler leaves are committed
Respond(res) ==
    /\ events' = res.events
    /\ reservations' = res.reservations
    /\ UNCHANGED <<now, sessions>>

CreateReservation(user_id, event_id, quantity) ==
    /\ Len(reservations) < MaxReservations
    /\ Respond(create_reservation(events, reservations, now,
                                  user_id, event_id, quantity))

ProcessPayment(user_id, reservation_id, payment_reference) ==
    Respond(process_payment(events, reservations, now,
                            user_id, reservation_id, payment_reference))

CancelReservation(user_id, reservation_id) ==
    Respond(cancel_reservation(events, reservations, now,
                               user_id, reservation_id))

UpdateReservation(user_id, reservation_id, data) ==
    Respond(update_reservation(events, reservations, now,
                               user_id, reservation_id, data))

\* a run of the sweep during which the loop body raises for some rows
CleanupWithFailures(failing) ==
    Respond(cleanup_with_failures(events, reservations, now, failing))

\* a create request that fails after reserve_tickets
CreateReservationFailing(user_id, event_id, quantity, point) ==
    /\ Len(reservations) < MaxReservations
    /\ Respond(create_reservation_failing(events, reservations, now,
                                          user_id, event_id, quantity, point))

\* Event.reserve_tickets and Event.release_tickets called on a row
ReserveTickets(event_id, quantity) ==
    /\ events' = [events EXCEPT ![event_id] = reserve_tickets(@, quantity, now)]
    /\ UNCHANGED <<reservations, now, sessions>>

ReleaseTickets(event_id, quantity) ==
    /\ events' = [events EXCEPT ![event_id] = release_tickets(@, quantity)]
    /\ UNCHANGED <<reservations, now, sessions>>

\* a read: the tables stay as they are
GetReservation(user_id, reservation_id) ==
    /\ get_reservation(reservations, user_id, reservation_id).status
          \in {200, 404}
    /\ UNCHANGED vars

CleanupExpiredReservations ==
    Respond(cleanup_expired_reservations(events, reservations, now))

UpdateEvent(event_id, data) ==
    Respond(update_event(events, reservations, event_id, data))

DeleteEvent(event_id) ==
    Respond(delete_event(events, reservations, event_id))

Tick ==
    /\ now < MaxTicks * TIMEOUT_MINUTES
    /\ now' = now + TIMEOUT_MINUTES
    /\ UNCHANGED <<events, reservations, sessions>>

\* a request in flight: create_reservation up to its availability check, on the
\* worker's own session
BeginCreate(w, user_id, event_id, quantity) ==
    /\ sessions[w].pc = "idle"
    /\ LET status == create_precheck(events, now, event_id, quantity) IN
       sessions' = [sessions EXCEPT ![w] =
           IF status # 0
           THEN [Idle EXCEPT !.pc = "done", !.user_id = user_id,
                             !.event_id = event_id, !.quantity = quantity,
                             !.status = status]
           ELSE [pc |-> "loaded", user_id |-> user_id, event_id |-> event_id,
                 quantity |-> quantity, event |-> events[event_id],
                 status |-> 0]]
    /\ UNCHANGED <<events, reservations, now>>

\* the rest of the request: reserve on the session's copy, insert, commit
CommitCreate(w) ==
    /\ sessions[w].pc = "loaded"
    /\ LET s == sessions[w]
           res == create_commit(events, reservations, s.event, now,
                                s.user_id, s.event_id, s.quantity)
       IN /\ events' = res.events
          /\ reservations' = res.reservations
          /\ sessions' = [sessions EXCEPT ![w].pc = "done",
                                          ![w].status = res.status]
    /\ UNCHANGED now

\* process_payment in flight: the row is loaded and found PENDING (lines
\* 147-156); a refused request ends here and leaves nothing behind
BeginPayment(w, user_id, reservation_id, payment_reference) ==
    /\ sessions[w].pc = "idle"
    /\ LET rid == find_reservation(reservations, reservation_id, user_id) IN
       sessions' = [sessions EXCEPT ![w] =
           IF rid = 0 \/ reservations[reservation_id].reservation_status # PENDING
           THEN Idle
           ELSE [pc |-> "paying", user_id |-> user_id,
                 reservation_id |-> rid,
                 payment_reference |-> payment_reference,
                 reservation |-> reservations[rid]]]
    /\ UNCHANGED <<events, reservations, now>>

\* the rest of process_payment: confirm_payment on the session's copy, save
CommitPayment(w) ==
    /\ sessions[w].pc = "paying"
    /\ LET s == sessions[w] IN
       reservations' =
           IF reference_taken(reservations, s.reservation_id,
                              s.payment_reference)
           THEN reservations
           ELSE flush_reservation(reservations, s.reservation_id,
                    s.reservation,
                    confirm_payment(s.reservation, s.payment_reference))
    /\ sessions' = [sessions EXCEPT ![w] = Idle]
    /\ UNCHANGED <<events, now>>

\* cancel_reservation in flight: the row and, through can_be_cancelled, its
\* event are loaded (lines 188-196)
BeginCancel(w, user_id, reservation_id) ==
    /\ sessions[w].pc = "idle"
    /\ LET rid == find_reservation(reservations, reservation_id, user_id) IN
       sessions' = [sessions EXCEPT ![w] =
           IF rid = 0
           THEN Idle
           ELSE IF ~can_be_cancelled(reservations[reservation_id], events, now)
           THEN Idle
           ELSE [pc |-> "cancelling", user_id |-> user_id,
                 reservation_id |-> rid,
                 reservation |-> reservations[rid],
                 event |-> events[reservations[rid].event_id]]]
    /\ UNCHANGED <<events, reservations, now>>

\* the rest of cancel_reservation: Reservation.cancel_reservation on the
\* session's copies, save, commit
CommitCancel(w) ==
    /\ sessions[w].pc = "cancelling"
    /\ LET s == sessions[w]
           eid == s.reservation.event_id
           c == cancel_reservation_model(s.reservation,
                    [events EXCEPT ![eid] = s.event], now)
       IN /\ reservations' =
                 IF c.ok
                 THEN flush_reservation(reservations, s.reservation_id,
                                        s.reservation, c.reservation)
                 ELSE reservations
          /\ events' =
                 IF c.ok
                 THEN flush_event(events, eid, s.event, c.event)
                 ELSE events
    /\ sessions' = [sessions EXCEPT ![w] = Idle]
    /\ UNCHANGED now

\* the sweep in flight: its query has run (lines 197-203) and the session holds
\* the selected rows; their events are not loaded yet
BeginSweep(w) ==
    /\ sessions[w].pc = "idle"
    /\ sessions' = [sessions EXCEPT ![w] =
           [pc |-> "sweeping",
            selected |-> expired_reservations(reservations, now)]]
    /\ UNCHANGED <<events, reservations, now>>

\* the rest of the sweep: the loop loads each selected row's event as it
\* stands now, releases on it and sets the row CANCELLED; then the commit
CommitSweep(w) ==
    /\ sessions[w].pc = "sweeping"
    /\ LET res == sweep_from(events, reservations, sessions[w].selected, 1) IN
       /\ events' = res.events
       /\ reservations' = res.reservations
    /\ sessions' = [sessions EXCEPT ![w] = Idle]
    /\ UNCHANGED now

\* reservation ids a request may name: the rows and one id past them
RequestIds == 1..(Len(reservations) + 1)
AnyEventId == EventIds \cup {MissingEventId}

\* the reservation endpoints, served one at a time, for the requests of
\* users asking for quantities and submitting the payment references refs
ReservationRequests(users, quantities, refs) ==
    \/ \E u \in users, e \in AnyEventId, q \in quantities :
          CreateReservation(u, e, q)
    \/ \E u \in users, r \in RequestIds, ref \in refs :
          ProcessPayment(u, r, ref)
    \/ \E u \in users, r \in RequestIds : CancelReservation(u, r)
    \/ \E u \in users, r \in RequestIds, d \in UpdateData(refs) :
          UpdateReservation(u, r, d)

\* the event endpoints, for edits that set a price among prices
EventRequests(prices) ==
    \/ \E e \in AnyEventId, d \in EventUpdateData(prices) : UpdateEvent(e, d)
    \/ \E e \in AnyEventId : DeleteEvent(e)

\* one user's reservations of an event, its edits and the sweep, as the
\* clock runs
Next ==
    \/ ReservationRequests({1}, Quantities, {"refA"})
    \/ EventRequests({})
    \/ CleanupExpiredReservations
    \/ Tick

Spec == Init /\ [][Next]_vars

\* every user's single-ticket reservations, the clock standing still
NextUsers == ReservationRequests(UserIds, {1}, PaymentRefs)

SpecUsers == Init /\ [][NextUsers]_vars

\* NumWorkers concurrent create_reservation requests of one ticket each
\* against an event of capacity below NumWorkers
InitRace ==
    /\ \E c \in 1..MaxCapacity : events = [e \in EventIds |-> NewEvent(c)]
    /\ reservations = <<>>
    /\ now = 0
    /\ sessions = [w \in Workers |-> Idle]

NextRace ==
    \/ \E w \in Workers, u \in UserIds : BeginCreate(w, u, 1, 1)
    \/ \E w \in Workers : CommitCreate(w)

SpecRace == InitRace /\ [][NextRace]_vars

\* every user's requests on every reservation, reads included
NextAccess ==
    \/ NextUsers
    \/ \E u \in UserIds, r \in RequestIds : GetReservation(u, r)

SpecAccess == Init /\ [][NextAccess]_vars

\* every quantity around the schema's range, asked of an event large enough
\* to grant the largest
AllQuantities == (MIN_QUANTITY - 2)..(MAX_QUANTITY + 1)
QuantityCapacity == MAX_QUANTITY + 1

InitQuantity ==
    /\ events = [e \in EventIds |-> NewEvent(QuantityCapacity)]
    /\ reservations = <<>>
    /\ now = 0
    /\ sessions = [w \in Workers |-> Idle]

NextQuantity ==
    \/ \E q \in AllQuantities : CreateReservation(1, 1, q)
    \/ \E e \in EventIds : DeleteEvent(e)
    \/ Tick

SpecQuantity == InitQuantity /\ [][NextQuantity]_vars


\* the Event methods on their own: every event row of capacity up to
\* QuantityCapacity, and every quantity from below zero to above the capacity
InventoryQuantities == (0 - 1)..(QuantityCapacity + 1)

InitInventory ==
    /\ \E c \in 1..QuantityCapacity, a \in 0..QuantityCapacity, b \in BOOLEAN :
          /\ a <= c
          /\ events = [e \in EventIds |->
                          [NewEvent(c) EXCEPT !.available_tickets = a,
                                              !.is_active = b]]
    /\ reservations = <<>>
    /\ now = 0
    /\ sessions = [w \in Workers |-> Idle]

NextInventory ==
    \/ \E e \in EventIds, q \in InventoryQuantities : ReserveTickets(e, q)
    \/ \E e \in EventIds, q \in InventoryQuantities :
          q >= 0 /\ ReleaseTickets(e, q)
    \/ Tick

SpecInventory == InitInventory /\ [][NextInventory]_vars


\* one user's payments and cancels of single-ticket reservations in flight
\* together, with the sweep, as the clock runs
NextPayRace ==
    \/ CreateReservation(1, 1, 1)
    \/ \E w \in Workers, r \in RequestIds : BeginPayment(w, 1, r, "refA")
    \/ \E w \in Workers : CommitPayment(w)
    \/ \E w \in Workers, r \in RequestIds : BeginCancel(w, 1, r)
    \/ \E w \in Workers : CommitCancel(w)
    \/ CleanupExpiredReservations
    \/ Tick

SpecPayRace == Init /\ [][NextPayRace]_vars


\* one user's reservations and the sweep, some of whose items may fail, as
\* the clock runs
NextSweep ==
    \/ \E q \in MIN_QUANTITY..MaxCapacity : CreateReservation(1, 1, q)
    \/ \E r \in RequestIds : ProcessPayment(1, r, "refA")
    \/ \E r \in RequestIds : CancelReservation(1, r)
    \/ \E failing \in SUBSET ReservationIds : CleanupWithFailures(failing)
    \/ Tick

SpecSweep == Init /\ [][NextSweep]_vars


\* one user's reservations, some of whose creations fail half-way, as the
\* clock runs
NextAtomic ==
    \/ \E q \in MIN_QUANTITY..MaxCapacity : CreateReservation(1, 1, q)
    \/ \E q \in MIN_QUANTITY..MaxCapacity, point \in FailurePoints :
          CreateReservationFailing(1, 1, q, point)
    \/ \E r \in RequestIds : ProcessPayment(1, r, "refA")
    \/ \E r \in RequestIds : CancelReservation(1, r)
    \/ Tick

SpecAtomic == Init /\ [][NextAtomic]_vars


\* an event whose date lies one timeout past the clock's last tick, so that
\* an overdue reservation can still be cancelled by its user
InitLate ==
    /\ events = [e \in EventIds |->
                    [NewEvent(MaxCapacity) EXCEPT
                        !.event_date = EventDate + TIMEOUT_MINUTES]]
    /\ reservations = <<>>
    /\ now = 0
    /\ sessions = [w \in Workers |-> Idle]

\* one user's cancel requests and the sweep in flight together; reservations
\* are created and paid while no cancellation is in flight
NextCancelRace ==
    \/ /\ \A w \in Workers : sessions[w].pc = "idle"
       /\ CreateReservation(1, 1, 1)
    \/ /\ \A w \in Workers : sessions[w].pc = "idle"
       /\ \E r \in RequestIds : ProcessPayment(1, r, "refA")
    \/ \E w \in Workers, r \in RequestIds : BeginCancel(w, 1, r)
    \/ \E w \in Workers : CommitCancel(w)
    \/ \E w \in Workers : BeginSweep(w)
    \/ \E w \in Workers : CommitSweep(w)
    \/ Tick

SpecCancelRace == InitLate /\ [][NextCancelRace]_vars

\* one user's reservations while the event's price and activity are edited
NextPrices ==
    \/ \E q \in MIN_QUANTITY..MaxCapacity : CreateReservation(1, 1, q)
    \/ \E r \in RequestIds : ProcessPayment(1, r, "refA")
    \/ \E r \in RequestIds : CancelReservation(1, r)
    \/ \E e \in AnyEventId, d \in EventUpdateData(Prices) : UpdateEvent(e, d)
    \/ CleanupExpiredReservations
    \/ Tick

SpecPrices == Init /\ [][NextPrices]_vars

\* the clock running on until one timeout past the event's date, when
\* every reservation made for the event is older than the timeout
TickLate ==
    /\ now < EventDate + TIMEOUT_MINUTES
    /\ now' = now + TIMEOUT_MINUTES
    /\ UNCHANGED <<events, reservations, sessions>>

\* a run of the sweep in which row i, if selected, does not raise
SweepSparing(i) ==
    \E failing \in SUBSET (ReservationIds \ {i}) : CleanupWithFailures(failing)

\* one user's reservations and a sweep called again and again, some of
\* whose items may fail, as the clock runs past the event's date: the clock
\* keeps advancing and no row fails in every run
NextLive ==
    \/ \E q \in MIN_QUANTITY..MaxCapacity : CreateReservation(1, 1, q)
    \/ \E r \in RequestIds : ProcessPayment(1, r, "refA")
    \/ \E r \in RequestIds : CancelReservation(1, r)
    \/ \E failing \in SUBSET ReservationIds : CleanupWithFailures(failing)
    \/ TickLate

SpecLive ==
    /\ Init
    /\ [][NextLive]_vars
    /\ WF_vars(TickLate)
    /\ \A i \in 1..MaxReservations : WF_vars(SweepSparing(i))

\* ------------------------------------------------------------ properties
\* tickets held by the PENDING and CONFIRMED reservations of an event
RECURSIVE HeldFrom(_, _, _)
HeldFrom(rsvs, event_id, i) ==
    IF i > Len(rsvs)
    THEN 0
    ELSE (IF rsvs[i].event_id = event_id /\ is_active(rsvs[i])
          THEN rsvs[i].ticket_quantity ELSE 0)
         + HeldFrom(rsvs, event_id, i + 1)

HeldTickets(rsvs, event_id) == HeldFrom(rsvs, event_id, 1)

\* C1: for every event, available_tickets plus the tickets held by its
\* PENDING and CONFIRMED reservations equals total_capacity.
C1_InventoryComplement ==
    \A e \in DOMAIN events :
        events[e].available_tickets + HeldTickets(reservations, e)
            = events[e].total_capacity

\* C2: when NumWorkers concurrent one-ticket creates against an event of
\* capacity C < NumWorkers have all been answered, exactly C got 201 and the
\* other NumWorkers - C got 400.
RaceDone == \A w \in Workers : sessions[w].pc = "done"
RaceWith(status) == {w \in Workers : sessions[w].status = status}

C2_ExactlyCapacitySucceed ==
    RaceDone =>
        /\ Cardinality(RaceWith(201)) = events[1].total_capacity
        /\ Cardinality(RaceWith(400)) = NumWorkers - events[1].total_capacity

\* C3: for every event, the tickets held by its PENDING and CONFIRMED
\* reservations never exceed total_capacity.
C3_NoOversell ==
    \A e \in DOMAIN events :
        HeldTickets(reservations, e) <= events[e].total_capacity
CreateIn(u, e, q) == create_reservation(events, reservations, now, u, e, q)

\* C5: create_reservation is all-or-nothing. A 201 adds exactly one row,
\* PENDING with payment PENDING, for the caller, event and quantity, and
\* lowers the event's available_tickets by exactly the quantity; any other
\* answer leaves events and reservations as they were; and a missing,
\* inactive or started event, or one with fewer tickets than asked, is never
\* answered 201.
C5_CreateAllOrNothing ==
    \A u \in UserIds, e \in AnyEventId, q \in Quantities :
        LET res == CreateIn(u, e, q)
            n == Len(reservations)
        IN
        /\ res.status = 201 =>
              /\ Len(res.reservations) = n + 1
              /\ SubSeq(res.reservations, 1, n) = reservations
              /\ res.reservations[n + 1].reservation_status = PENDING
              /\ res.reservations[n + 1].payment_status = PAY_PENDING
              /\ res.reservations[n + 1].user_id = u
              /\ res.reservations[n + 1].event_id = e
              /\ res.reservations[n + 1].ticket_quantity = q
              /\ res.events =
                    [events EXCEPT ![e].available_tickets = @ - q]
        /\ res.status # 201 =>
              /\ res.events = events
              /\ res.reservations = reservations
        /\ (\/ e \notin DOMAIN events
            \/ ~events[e].is_active
            \/ events[e].event_date <= now
            \/ events[e].available_tickets < q) => res.status # 201

\* C5 witness: a reservation has been created, and in the same state one
\* request is answered 201 and another, for more tickets than are left, 400.
C5_Witness ==
    /\ Len(reservations) > 0
    /\ events[1].available_tickets = 1
    /\ CreateIn(1, 1, 1).status = 201
    /\ CreateIn(1, 1, 2).status = 400

\* what process_payment answers in the current state
PayIn(u, r, ref) == process_payment(events, reservations, now, u, r, ref)

\* C6: process_payment changes rows only for a reservation that the caller
\* owns and that is PENDING; a 200 sets that row to CONFIRMED / COMPLETED
\* with the submitted reference and changes nothing else, the event
\* included; for the owner's CONFIRMED or CANCELLED reservation the answer
\* is 400 and nothing changes.
C6_PaymentOnlyOwnPending ==
    \A u \in UserIds, r \in RequestIds, ref \in PaymentRefs :
        LET res == PayIn(u, r, ref)
            own == r <= Len(reservations) /\ reservations[r].user_id = u
        IN
        /\ (res.reservations # reservations \/ res.events # events) =>
              /\ own
              /\ reservations[r].reservation_status = PENDING
              /\ res.status = 200
        /\ res.status = 200 =>
              /\ own
              /\ res.events = events
              /\ res.reservations =
                    [reservations EXCEPT
                        ![r].reservation_status = CONFIRMED,
                        ![r].payment_status = PAY_COMPLETED,
                        ![r].payment_reference = ref]
        /\ (own /\ reservations[r].reservation_status # PENDING) =>
              /\ res.status = 400
              /\ res.events = events
              /\ res.reservations = reservations

\* C6 witness: one user's reservation has been paid (CONFIRMED, COMPLETED,
\* reference recorded) while another user's is PENDING and payable by its
\* owner only.
C6_Witness ==
    \E i, j \in 1..Len(reservations) :
        /\ reservations[i].reservation_status = CONFIRMED
        /\ reservations[i].payment_status = PAY_COMPLETED
        /\ reservations[i].payment_reference = "refB"
        /\ reservations[j].reservation_status = PENDING
        /\ reservations[j].user_id # reservations[i].user_id
        /\ PayIn(reservations[j].user_id, j, "refA").status = 200
        /\ PayIn(reservations[i].user_id, j, "refA").status = 404
        /\ PayIn(reservations[i].user_id, i, "refA").status = 400

\* what the cancel endpoint answers in the current state
CancelIn(u, r) == cancel_reservation(events, reservations, now, u, r)

\* C7: Reservation.cancel_reservation returns True, and the endpoint answers
\* the owner 200, exactly when the reservation is not CANCELLED and the
\* event's date is still in the future; otherwise the method returns False,
\* the endpoint answers 400, and reservation and event stay as they were.
C7_CancelIffNotCancelledAndUpcoming ==
    \A i \in 1..Len(reservations) :
        LET r == reservations[i]
            ev == events[r.event_id]
            legal == r.reservation_status # CANCELLED /\ ev.event_date > now
            c == cancel_reservation_model(r, events, now)
            res == CancelIn(r.user_id, i)
        IN
        /\ c.ok <=> legal
        /\ (res.status = 200) <=> legal
        /\ ~legal =>
              /\ c.reservation = r
              /\ c.event = ev
              /\ res.status = 400
              /\ res.events = events
              /\ res.reservations = reservations

\* C7 witness: the event has started while a reservation is still CONFIRMED
\* and another is already CANCELLED: both cancels are refused.
C7_Witness ==
    /\ events[1].event_date <= now
    /\ \E i, j \in 1..Len(reservations) :
          /\ reservations[i].reservation_status = CONFIRMED
          /\ reservations[j].reservation_status = CANCELLED
          /\ CancelIn(reservations[i].user_id, i).status = 400

\* C8: a successful cancel sets the reservation CANCELLED, adds exactly
\* ticket_quantity to the event's available_tickets, and turns a COMPLETED
\* payment into REFUNDED while leaving any other payment status as it was.
C8_CancelReleasesExactly ==
    \A i \in 1..Len(reservations) :
        LET r == reservations[i]
            res == CancelIn(r.user_id, i)
        IN
        res.status = 200 =>
            /\ res.reservations[i].reservation_status = CANCELLED
            /\ res.events[r.event_id].available_tickets
                  = events[r.event_id].available_tickets + r.ticket_quantity
            /\ res.reservations[i].payment_status =
                  IF r.payment_status = PAY_COMPLETED
                  THEN PAY_REFUNDED ELSE r.payment_status

\* C9: CANCELLED is absorbing and PENDING is never re-entered: no step
\* changes the status of a CANCELLED reservation, and no step sets a
\* reservation that is not PENDING to PENDING.
C9_CancelledAbsorbing ==
    [][\A i \in 1..Len(reservations) :
          /\ reservations[i].reservation_status = CANCELLED
                => reservations'[i].reservation_status = CANCELLED
          /\ reservations[i].reservation_status # PENDING
                => reservations'[i].reservation_status # PENDING]_vars

\* C10: each (user, event) pair has at most one PENDING reservation.
C10_OnePendingPerUserEvent ==
    \A i, j \in 1..Len(reservations) :
        (/\ i # j
         /\ reservations[i].user_id = reservations[j].user_id
         /\ reservations[i].event_id = reservations[j].event_id
         /\ reservations[i].reservation_status = PENDING)
        => reservations[j].reservation_status # PENDING
\* C11: create_reservation answers 400 to every ticket_quantity outside
\* 1..10 (0, negative, 11) and creates and reserves nothing, and answers 201
\* to every quantity in 1..10, 10 included, when the event is active,
\* upcoming and has at least that many tickets.
C11_QuantityRange ==
    \A q \in AllQuantities :
        LET res == CreateIn(1, 1, q) IN
        /\ (q < 1 \/ q > 10) =>
              /\ res.status = 400
              /\ res.events = events
              /\ res.reservations = reservations
        /\ (/\ q >= 1
            /\ q <= 10
            /\ events[1].is_active
            /\ events[1].event_date > now
            /\ events[1].available_tickets >= q) => res.status = 201

\* C11 witness: a reservation of exactly 10 tickets has been created, and the
\* same request for 11 is answered 400 while one ticket is still for sale.
C11_Witness ==
    /\ \E i \in 1..Len(reservations) : reservations[i].ticket_quantity = 10
    /\ events[1].available_tickets = 1
    /\ CreateIn(1, 1, 1).status = 201
    /\ CreateIn(1, 1, 11).status = 400
    /\ CreateIn(1, 1, 0).status = 400
\* the reservations a sweep at the current clock reading is due to cancel:
\* PENDING and created more than 15 minutes ago
Overdue ==
    {i \in 1..Len(reservations) :
        /\ reservations[i].reservation_status = PENDING
        /\ now - reservations[i].created_at > 15}

\* tickets of the overdue reservations of an event, from id i on
RECURSIVE OverdueTicketsFrom(_, _)
OverdueTicketsFrom(event_id, i) ==
    IF i > Len(reservations)
    THEN 0
    ELSE (IF i \in Overdue /\ reservations[i].event_id = event_id
          THEN reservations[i].ticket_quantity ELSE 0)
         + OverdueTicketsFrom(event_id, i + 1)

\* what one run of the sweep leaves, from the current state
SweepIn == cleanup_expired_reservations(events, reservations, now)

\* C12: after one run of the sweep every reservation that was PENDING and
\* created more than 15 minutes before the run is CANCELLED, and its
\* ticket_quantity has been added to its event's available_tickets.
C12_SweepCancelsAndReleases ==
    /\ \A i \in Overdue :
          SweepIn.reservations[i].reservation_status = CANCELLED
    /\ \A e \in DOMAIN events :
          SweepIn.events[e].available_tickets
             = events[e].available_tickets + OverdueTicketsFrom(e, 1)

\* C13: the sweep is idempotent: a second run right after the first, at the
\* same clock reading and with nothing changed in between, leaves every
\* reservation and every event as the first run left them.
C13_SweepIdempotent ==
    LET second == cleanup_expired_reservations(SweepIn.events,
                                               SweepIn.reservations, now)
    IN /\ second.reservations = SweepIn.reservations
       /\ second.events = SweepIn.events

\* C13 witness: a CONFIRMED reservation holds a ticket while an overdue
\* PENDING one is due: the first run cancels and releases, and tickets
\* remain that a second release would add.
C13_Witness ==
    /\ Overdue # {}
    /\ \E i \in 1..Len(reservations) :
          reservations[i].reservation_status = CONFIRMED
    /\ SweepIn.reservations # reservations
    /\ SweepIn.events[1].available_tickets < SweepIn.events[1].total_capacity
    /\ SweepIn.events[1].available_tickets > events[1].available_tickets
\* what the update endpoint answers in the current state
UpdateIn(u, r, d) == update_reservation(events, reservations, now, u, r, d)

\* an id that names no reservation
MissingReservationId == Len(reservations) + 1

\* C14: for a reservation owned by someone else, view, pay, cancel and update
\* each change nothing and answer exactly what they answer for an id that
\* does not exist: 404 'Reservation not found'.
C14_ForeignLikeMissing ==
    \A u \in UserIds, r \in 1..Len(reservations) :
        reservations[r].user_id # u =>
            /\ get_reservation(reservations, u, r).status = 404
            /\ get_reservation(reservations, u, r).body = NOT_FOUND
            /\ get_reservation(reservations, u, MissingReservationId).status = 404
            /\ get_reservation(reservations, u, MissingReservationId).body
                  = NOT_FOUND
            /\ \A ref \in PaymentRefs :
                  /\ PayIn(u, r, ref) = Result(404, events, reservations)
                  /\ PayIn(u, MissingReservationId, ref) = PayIn(u, r, ref)
            /\ CancelIn(u, r) = Result(404, events, reservations)
            /\ CancelIn(u, MissingReservationId) = CancelIn(u, r)
            /\ \A d \in UpdateData(PaymentRefs) :
                  /\ UpdateIn(u, r, d) = Result(404, events, reservations)
                  /\ UpdateIn(u, MissingReservationId, d) = UpdateIn(u, r, d)

\* C14 witness: two users hold a reservation each; the owner of one sees it
\* and can pay it, the other user is answered 404 for it.
C14_Witness ==
    \E i, j \in 1..Len(reservations) :
        /\ reservations[i].user_id = 1
        /\ reservations[j].user_id = 2
        /\ reservations[i].reservation_status = PENDING
        /\ reservations[j].reservation_status = CONFIRMED
        /\ get_reservation(reservations, 1, i).status = 200
        /\ get_reservation(reservations, 2, i).status = 404
        /\ PayIn(1, i, "refA").status = 200
        /\ PayIn(2, i, "refA").status = 404
\* a response that rejects the request as the client's error
Rejected(res) == res.status >= 400 /\ res.status < 500

\* C15: no two reservations carry the same non-null payment_reference; a
\* payment, or a reservation update, submitting a reference that another
\* reservation already carries is rejected as a duplicate and leaves every
\* row as it was, the paying reservation still PENDING and without that
\* reference.
C15_DuplicateReferenceRejected ==
    /\ \A i, j \in 1..Len(reservations) :
          (i # j /\ reservations[i].payment_reference # NULL)
          => reservations[i].payment_reference
                # reservations[j].payment_reference
    /\ \A u \in UserIds, r \in 1..Len(reservations), ref \in PaymentRefs :
          (/\ reservations[r].user_id = u
           /\ \E j \in 1..Len(reservations) :
                 j # r /\ reservations[j].payment_reference = ref)
          => /\ Rejected(PayIn(u, r, ref))
             /\ PayIn(u, r, ref).reservations = reservations
             /\ PayIn(u, r, ref).events = events
             /\ \A d \in UpdateData({ref}) :
                   "payment_reference" \in DOMAIN d =>
                       /\ Rejected(UpdateIn(u, r, d))
                       /\ UpdateIn(u, r, d).reservations = reservations
                       /\ UpdateIn(u, r, d).events = events
\* C16: can_reserve_tickets(quantity) is true exactly when the event is
\* active, upcoming, quantity > 0 and quantity <= available_tickets;
\* reserve_tickets(quantity) returns the same boolean, lowers
\* available_tickets by exactly quantity when it is true and changes nothing
\* when it is false.
C16_ReserveExactlyWhenAllowed ==
    \A e \in DOMAIN events, q \in InventoryQuantities :
        LET ev == events[e]
            allowed == /\ ev.is_active
                       /\ ev.event_date > now
                       /\ q > 0
                       /\ q <= ev.available_tickets
        IN /\ can_reserve_tickets(ev, q, now) <=> allowed
           /\ reserve_tickets_returns(ev, q, now) <=> allowed
           /\ allowed => reserve_tickets(ev, q, now)
                            = [ev EXCEPT !.available_tickets = @ - q]
           /\ ~allowed => reserve_tickets(ev, q, now) = ev

\* C16 witness: tickets have been reserved from an active, upcoming event
\* with one left: a request for 1 is allowed, for 2, for 0 and for -1 not.
C16_Witness ==
    /\ events[1].is_active
    /\ events[1].event_date > now
    /\ events[1].total_capacity = QuantityCapacity
    /\ events[1].available_tickets = 1
    /\ reserve_tickets_returns(events[1], 1, now)
    /\ ~reserve_tickets_returns(events[1], 2, now)
    /\ ~reserve_tickets_returns(events[1], 0, now)
    /\ ~reserve_tickets_returns(events[1], 0 - 1, now)

RoundTrip(ev, q) ==
    release_tickets(reserve_tickets(ev, q, now), q).available_tickets

\* C18 as stated: for every event row and every quantity q, reserve_tickets(q)
\* followed by release_tickets(q) leaves available_tickets as it was.
C18_RoundTripAlways ==
    \A e \in DOMAIN events, q \in InventoryQuantities :
        RoundTrip(events[e], q) = events[e].available_tickets

\* C18 amended: the round trip restores available_tickets whenever
\* reserve_tickets(q) returned True.
C18_RoundTripAfterReserve ==
    \A e \in DOMAIN events, q \in InventoryQuantities :
        reserve_tickets_returns(events[e], q, now)
        => RoundTrip(events[e], q) = events[e].available_tickets

\* C18 witness: from a partly sold event, reserving and releasing every
\* ticket left restores the counter, while the round trip of one ticket more,
\* which reserve_tickets refuses, adds tickets.
C18_Witness ==
    /\ events[1].available_tickets > 1
    /\ events[1].available_tickets < events[1].total_capacity - 1
    /\ reserve_tickets_returns(events[1], events[1].available_tickets, now)
    /\ RoundTrip(events[1], events[1].available_tickets)
          = events[1].available_tickets
    /\ ~reserve_tickets_returns(events[1], events[1].available_tickets + 1, now)
    /\ RoundTrip(events[1], events[1].available_tickets + 1)
          > events[1].available_tickets
\* C19: a payment and a cancel of the same PENDING reservation in flight
\* together end as one of the serial orders: no step confirms a reservation
\* that is already CANCELLED (whose tickets have been released).
C19_PaymentNeverConfirmsCancelled ==
    [][\A i \in 1..Len(reservations) :
          reservations[i].reservation_status = CANCELLED
          => reservations'[i].reservation_status # CONFIRMED]_vars
\* C20: a payment of a PENDING reservation created more than 15 minutes ago
\* (expired, not yet swept) is rejected like a payment of a cancelled one,
\* and the reservation does not become CONFIRMED.
C20_ExpiredPaymentRejected ==
    \A u \in UserIds, r \in Overdue, ref \in PaymentRefs :
        reservations[r].user_id = u =>
            /\ PayIn(u, r, ref).status # 200
            /\ PayIn(u, r, ref).reservations[r].reservation_status # CONFIRMED
\* the overdue reservations from id i on, each put through the Cancel
\* transition (Reservation.cancel_reservation, guard included) in turn
RECURSIVE CancelOverdueFrom(_, _, _)
CancelOverdueFrom(evs, rsvs, i) ==
    IF i > Len(rsvs)
    THEN Result(0, evs, rsvs)
    ELSE IF i \notin Overdue
    THEN CancelOverdueFrom(evs, rsvs, i + 1)
    ELSE LET c == cancel_reservation_model(rsvs[i], evs, now) IN
         CancelOverdueFrom([evs EXCEPT ![rsvs[i].event_id] = c.event],
                           [rsvs EXCEPT ![i] = c.reservation], i + 1)

\* C21: for the overdue PENDING reservations the sweep leaves exactly what
\* the Cancel transition would leave on the same state, guard included: the
\* same reservation status, payment status and available_tickets, and no
\* change where Cancel is refused because the event has started.
C21_SweepLikeCancel ==
    /\ SweepIn.reservations = CancelOverdueFrom(events, reservations, 1).reservations
    /\ SweepIn.events = CancelOverdueFrom(events, reservations, 1).events
\* C22: sweep items are independent. When the item of one overdue
\* reservation f fails, every other overdue reservation, before f and after
\* it, ends the sweep CANCELLED with its tickets released, and f is left
\* PENDING with its tickets still held.
C22_SweepItemsIndependent ==
    \A f \in Overdue :
        LET res == cleanup_with_failures(events, reservations, now, {f}) IN
        /\ res.reservations[f] = reservations[f]
        /\ \A i \in Overdue \ {f} :
              res.reservations[i].reservation_status = CANCELLED
        /\ \A e \in DOMAIN events :
              res.events[e].available_tickets
                 = events[e].available_tickets + OverdueTicketsFrom(e, 1)
                   - (IF reservations[f].event_id = e
                      THEN reservations[f].ticket_quantity ELSE 0)
\* C23: a sweep changes only the reservations that are PENDING and created
\* more than 15 minutes ago, and of those only the status: every CONFIRMED,
\* CANCELLED or younger PENDING reservation is left as it is, no row is added
\* or removed, and an event changes in available_tickets alone, which rises
\* by the quantities of its swept reservations (capped at total_capacity) and
\* by nothing else.
C23_SweepFrame ==
    /\ Len(SweepIn.reservations) = Len(reservations)
    /\ \A i \in 1..Len(reservations) :
          SweepIn.reservations[i] =
              IF i \in Overdue
              THEN [reservations[i] EXCEPT !.reservation_status = CANCELLED]
              ELSE reservations[i]
    /\ \A e \in DOMAIN events :
          LET sum == events[e].available_tickets + OverdueTicketsFrom(e, 1) IN
          SweepIn.events[e] =
              [events[e] EXCEPT !.available_tickets =
                  IF sum > events[e].total_capacity
                  THEN events[e].total_capacity ELSE sum]

\* C23 witness: an overdue PENDING reservation stands next to a PENDING one
\* exactly 15 minutes old: the sweep cancels the first and leaves the second.
C23_Witness ==
    \E i, j \in 1..Len(reservations) :
        /\ i \in Overdue
        /\ j \notin Overdue
        /\ reservations[j].reservation_status = PENDING
        /\ now - reservations[j].created_at = 15
        /\ SweepIn.reservations[i].reservation_status = CANCELLED
        /\ SweepIn.reservations[j] = reservations[j]
        /\ SweepIn.events[1].available_tickets
              = events[1].available_tickets + reservations[i].ticket_quantity
\* what a create request that fails at point leaves, from the current state
FailedCreateIn(q, point) ==
    create_reservation_failing(events, reservations, now, 1, 1, q, point)

C25_ReleasedAtMostOnce ==
    \A e \in DOMAIN events :
        events[e].available_tickets
           <= events[e].total_capacity - HeldTickets(reservations, e)

\* C26: delete_event is a soft delete. It answers 200, sets is_active to
\* false and changes nothing else: no event or reservation is removed,
\* available_tickets and every reservation stay as they were. On the tables
\* it leaves, every create for the event is rejected and changes nothing,
\* every owned PENDING reservation of the event is paid with a reference
\* nobody used, and every owned PENDING or CONFIRMED reservation of the
\* event, still upcoming, is cancelled and its tickets released.
AfterDelete(e) == delete_event(events, reservations, e)

C27_ReferenceOnlyByPayment ==
    \A r \in ReservationIds :
        /\ reservations[r].payment_reference # NULL
              => reservations[r].payment_status
                    \in {PAY_COMPLETED, PAY_REFUNDED}
        /\ reservations[r].payment_status = PAY_PENDING
              => reservations[r].payment_reference = NULL

\* C28: reservation status and payment status stay coupled: a reservation is
\* CONFIRMED exactly when its payment is COMPLETED, and a REFUNDED payment
\* is found on CANCELLED reservations only.
C28_StatusCoupled ==
    \A r \in ReservationIds :
        /\ reservations[r].reservation_status = CONFIRMED
              <=> reservations[r].payment_status = PAY_COMPLETED
        /\ reservations[r].payment_status = PAY_REFUNDED
              => reservations[r].reservation_status = CANCELLED

SnapshotKept ==
    /\ \A r \in ReservationIds :
          /\ reservations'[r].unit_price = reservations[r].unit_price
          /\ reservations'[r].total_amount = reservations[r].total_amount
    /\ \A r \in 1..Len(reservations') :
          /\ reservations'[r].total_amount
                = reservations'[r].ticket_quantity * reservations'[r].unit_price
          /\ r \notin ReservationIds
                => reservations'[r].unit_price
                      = events[reservations'[r].event_id].ticket_price

\* a step leaves alone the ticket_price of the events that have reservations
ReferencedPriceKept ==
    \A e \in DOMAIN events :
        (\E r \in ReservationIds : reservations[r].event_id = e)
           => events'[e].ticket_price = events[e].ticket_price

====
